---- MODULE Spec2Model ----
(***************************************************************************)
(* Model of the workflow-parameters Redux slice                            *)
(* libs/designer/src/lib/core/state/workflowparameters/                    *)
(* workflowparametersSlice.ts                                              *)
(*                                                                         *)
(* A JavaScript object is a function whose DOMAIN is the set of its own    *)
(* keys; the value undefined is the string UNDEF.  Reading a key that is   *)
(* not an own key gives UNDEF (Get).  Every reducer is a pure operator     *)
(* from the slice state (and its payload) to the next slice state, as      *)
(* Immer makes it; the actions below dispatch them.  The variable last is  *)
(* the action dispatched last, used the ids seen so far (guid() never      *)
(* returns one of them), steps the number of actions dispatched.           *)
(***************************************************************************)
EXTENDS Integers, FiniteSets, Sequences, TLC

VARIABLES state, used, last, steps

vars == <<state, used, last, steps>>

(* ------------------------------- bounds -------------------------------- *)

\* number of commands dispatched in one run
MaxSteps == 3

\* the parameter ids (guids, or the names of loaded parameters)
Ids == {"A", "B"}

(* ------------------------- JavaScript values --------------------------- *)

UNDEF == "undefined"

EmptyObj == [k \in {} |-> UNDEF]

Get(obj, k) == IF k \in DOMAIN obj THEN obj[k] ELSE UNDEF

\* { ...base, ...over }
Spread(base, over) == over @@ base

\* delete obj[k]
DeleteKey(obj, k) == [x \in DOMAIN obj \ {k} |-> obj[x]]

\* getRecordEntry(record, key) ?? d
getRecordEntry(record, key, d) == IF key \in DOMAIN record THEN record[key] ELSE d

\* !v  for a string or undefined
Falsy(v) == v = UNDEF \/ v = ""

\* v ?? d
Coalesce(v, d) == IF v = UNDEF THEN d ELSE v

\* String.prototype.toLowerCase on the strings the model uses
toLowerCase(s) ==
  CASE s = "Foo" -> "foo"
    [] s = "defaultValue" -> "defaultvalue"
    [] OTHER -> s

\* equals of logic-apps-shared: case-insensitive, false for a missing operand
equals(x, y) ==
  /\ x # UNDEF
  /\ y # UNDEF
  /\ toLowerCase(x) = toLowerCase(y)

(* ------------------------------ messages ------------------------------- *)

MissingName == "Must provide the parameter name."
DuplicateName == "Parameter name already exists."
MissingValue == "Must provide value for parameter."
InvalidInteger == "Enter a valid integer."
InvalidArray == "Enter a valid array."

ARRAY == "Array"
INT == "Int"

\* the external type-aware validator: a message, or UNDEF for none
validateParameterValueWithSwaggerType(type, valueToValidate, required) ==
  CASE type = INT /\ valueToValidate # "1" -> InvalidInteger
    [] type = ARRAY /\ valueToValidate # "[]" -> InvalidArray
    [] OTHER -> UNDEF

(* ------------------------------ the slice ------------------------------ *)

initialState ==
  [definitions |-> EmptyObj, validationErrors |-> EmptyObj, isDirty |-> FALSE]

\* a filter that finds no parameter with the name
duplicateParameters_FindsNone(id, name, allDefinitions) == {}

\* a filter that forgets to leave out the parameter itself
duplicateParameters_CountsItself(id, name, allDefinitions) ==
  {parameterId \in DOMAIN allDefinitions :
     equals(Get(allDefinitions[parameterId], "name"), name)}

\* a filter that compares the names exactly
duplicateParameters_CaseSensitive(id, name, allDefinitions) ==
  {parameterId \in DOMAIN allDefinitions :
     /\ parameterId # id
     /\ Get(allDefinitions[parameterId], "name") = name}

\* lines 48-50: the other parameters with the same name
duplicateParameters(id, name, allDefinitions) ==
  {parameterId \in DOMAIN allDefinitions :
     /\ parameterId # id
     /\ equals(Get(allDefinitions[parameterId], "name"), name)}

\* a name rule that looks for duplicates before it looks at the name
validateParameter_DuplicateFirst(id, d, keyToValidate, allDefinitions, required) ==
  CASE toLowerCase(keyToValidate) = "name" ->
         IF Cardinality(duplicateParameters(id, Get(d, "name"), allDefinitions)) > 0
         THEN DuplicateName
         ELSE IF Falsy(Get(d, "name")) THEN MissingName ELSE UNDEF
    [] toLowerCase(keyToValidate) \in {"value", "defaultvalue"} ->
         LET valueToValidate ==
               IF equals(keyToValidate, "value")
               THEN Get(d, "value") ELSE Get(d, "defaultValue")
             type == Get(d, "type")
         IN IF valueToValidate = "" \/ valueToValidate = UNDEF
            THEN IF ~required THEN UNDEF ELSE MissingValue
            ELSE validateParameterValueWithSwaggerType(type, valueToValidate, required)
    [] OTHER -> UNDEF

validateParameter(id, d, keyToValidate, allDefinitions, required) ==
  CASE toLowerCase(keyToValidate) = "name" ->
         IF Falsy(Get(d, "name"))
         THEN MissingName
         ELSE IF Cardinality(duplicateParameters(id, d.name, allDefinitions)) > 0
              THEN DuplicateName
              ELSE UNDEF
    [] toLowerCase(keyToValidate) \in {"value", "defaultvalue"} ->
         LET valueToValidate ==
               IF equals(keyToValidate, "value")
               THEN Get(d, "value") ELSE Get(d, "defaultValue")
             type == Get(d, "type")
         IN IF valueToValidate = "" \/ valueToValidate = UNDEF
            THEN IF ~required THEN UNDEF ELSE MissingValue
            ELSE validateParameterValueWithSwaggerType(type, valueToValidate, required)
    [] OTHER -> UNDEF

\* an initialize that also drops the recorded errors
initializeParameters_ClearsErrors(s, payload) ==
  [s EXCEPT !.definitions = payload, !.validationErrors = EmptyObj]

initializeParameters(s, payload) == [s EXCEPT !.definitions = payload]

\* an add that validates the new, unnamed parameter
addParameter_Validates(s, parameterId) ==
  [s EXCEPT
     !.definitions =
        Spread(s.definitions,
               parameterId :> [isEditable |-> TRUE, type |-> ARRAY, name |-> ""]),
     !.validationErrors =
        Spread(s.validationErrors, parameterId :> [name |-> MissingName]),
     !.isDirty = TRUE]

addParameter(s, parameterId) ==
  [s EXCEPT
     !.definitions =
        Spread(s.definitions,
               parameterId :> [isEditable |-> TRUE, type |-> ARRAY, name |-> ""]),
     !.isDirty = TRUE]

\* a delete that does not mark the store dirty
deleteParameter_NotDirty(s, parameterId) ==
  [s EXCEPT
     !.validationErrors = DeleteKey(s.validationErrors, parameterId),
     !.definitions = DeleteKey(s.definitions, parameterId)]

\* a delete that leaves the error entry behind
deleteParameter_KeepsErrors(s, parameterId) ==
  [s EXCEPT
     !.definitions = DeleteKey(s.definitions, parameterId),
     !.isDirty = TRUE]

deleteParameter(s, parameterId) ==
  [s EXCEPT
     !.validationErrors = DeleteKey(s.validationErrors, parameterId),
     !.definitions = DeleteKey(s.definitions, parameterId),
     !.isDirty = TRUE]

\* a prune that forgets the value key
PruneErrorObj_KeepsValue(obj) ==
  [k \in {x \in DOMAIN obj :
            ~(x \in {"name", "defaultValue"} /\ Falsy(obj[x]))} |-> obj[k]]

\* the prune of lines 133-141: a falsy name / value / defaultValue is deleted
PruneErrorObj(obj) ==
  [k \in {x \in DOMAIN obj :
            ~(x \in {"name", "value", "defaultValue"} /\ Falsy(obj[x]))} |-> obj[k]]

\* payload is { id, newDefinition: { name, type, value, defaultValue }, useLegacy? }
useLegacy(payload) ==
  IF "useLegacy" \in DOMAIN payload THEN payload.useLegacy ELSE FALSE

\* the destructured newDefinition: a key left out reads undefined
data(payload) ==
  [name |-> Get(payload.newDefinition, "name"),
   type |-> Get(payload.newDefinition, "type"),
   value |-> Get(payload.newDefinition, "value"),
   defaultValue |-> Get(payload.newDefinition, "defaultValue")]

\* a validation that treats defaultValue like value: optional in legacy mode
validationErrors_DefaultOptional(s, payload) ==
  Spread([name |-> validateParameter(payload.id, [name |-> data(payload).name],
                                     "name", s.definitions, TRUE),
          value |-> validateParameter(payload.id, data(payload), "value",
                                      s.definitions, ~useLegacy(payload))],
         IF useLegacy(payload)
         THEN [defaultValue |-> validateParameter(payload.id, data(payload),
                                                  "defaultValue", s.definitions,
                                                  ~useLegacy(payload))]
         ELSE EmptyObj)

\* a validation that requires the value in both modes
validationErrors_ValueRequired(s, payload) ==
  Spread([name |-> validateParameter(payload.id, [name |-> data(payload).name],
                                     "name", s.definitions, TRUE),
          value |-> validateParameter(payload.id, data(payload), "value",
                                      s.definitions, TRUE)],
         IF useLegacy(payload)
         THEN [defaultValue |-> validateParameter(payload.id, data(payload),
                                                  "defaultValue", s.definitions, TRUE)]
         ELSE EmptyObj)

\* lines 112-120: the rules evaluated by this call
validationErrors(s, payload) ==
  Spread([name |-> validateParameter(payload.id, [name |-> data(payload).name],
                                     "name", s.definitions, TRUE),
          value |-> validateParameter(payload.id, data(payload), "value",
                                      s.definitions, ~useLegacy(payload))],
         IF useLegacy(payload)
         THEN [defaultValue |-> validateParameter(payload.id, data(payload),
                                                  "defaultValue", s.definitions, TRUE)]
         ELSE EmptyObj)

\* a merge that starts from an empty record instead of the stored one
newDefinition_DropsPrevious(s, payload) ==
  Spread([type |-> data(payload).type,
          value |-> data(payload).value,
          name |-> Coalesce(data(payload).name, "")],
         IF useLegacy(payload)
         THEN [defaultValue |-> data(payload).defaultValue]
         ELSE EmptyObj)

\* a merge that stores an absent name as it is
newDefinition_NameAsGiven(s, payload) ==
  Spread(Spread(getRecordEntry(s.definitions, payload.id, EmptyObj),
                [type |-> data(payload).type,
                 value |-> data(payload).value,
                 name |-> data(payload).name]),
         IF useLegacy(payload)
         THEN [defaultValue |-> data(payload).defaultValue]
         ELSE EmptyObj)

\* a merge that stores defaultValue in both modes
newDefinition_AlwaysDefault(s, payload) ==
  Spread(getRecordEntry(s.definitions, payload.id, EmptyObj),
         [type |-> data(payload).type,
          value |-> data(payload).value,
          name |-> Coalesce(data(payload).name, ""),
          defaultValue |-> data(payload).defaultValue])

\* lines 122-128: the stored definition
newDefinition(s, payload) ==
  Spread(Spread(getRecordEntry(s.definitions, payload.id, EmptyObj),
                [type |-> data(payload).type,
                 value |-> data(payload).value,
                 name |-> Coalesce(data(payload).name, "")]),
         IF useLegacy(payload)
         THEN [defaultValue |-> data(payload).defaultValue]
         ELSE EmptyObj)

\* a merge in which the previous errors win over the computed ones
newErrorObj_PreviousWins(s, payload) ==
  PruneErrorObj(Spread(validationErrors(s, payload),
                       getRecordEntry(s.validationErrors, payload.id, EmptyObj)))

\* lines 129-141: the previous errors overwritten by the computed ones, pruned
newErrorObj(s, payload) ==
  PruneErrorObj(Spread(getRecordEntry(s.validationErrors, payload.id, EmptyObj),
                       validationErrors(s, payload)))

\* an update that records the errors without storing the definition
updateParameter_ErrorsOnly(s, payload) ==
  [definitions |-> s.definitions,
   validationErrors |->
     IF Cardinality(DOMAIN newErrorObj(s, payload)) = 0
     THEN DeleteKey(s.validationErrors, payload.id)
     ELSE Spread(s.validationErrors, payload.id :> newErrorObj(s, payload)),
   isDirty |-> TRUE]

updateParameter(s, payload) ==
  [definitions |-> Spread(s.definitions, payload.id :> newDefinition(s, payload)),
   validationErrors |->
     IF Cardinality(DOMAIN newErrorObj(s, payload)) = 0
     THEN DeleteKey(s.validationErrors, payload.id)
     ELSE Spread(s.validationErrors, payload.id :> newErrorObj(s, payload)),
   isDirty |-> TRUE]

setIsWorkflowParametersDirty(s, payload) == [s EXCEPT !.isDirty = payload]

\* a reset that keeps the dirty flag
resetWorkflowState_KeepsDirty(s) == [initialState EXCEPT !.isDirty = s.isDirty]

resetWorkflowState(s) == initialState

\* a restore that prunes the error sets of the snapshot
setStateAfterUndoRedo_Prunes(s, payload) ==
  [payload.workflowParameters EXCEPT
     !.validationErrors =
        [id \in {i \in DOMAIN payload.workflowParameters.validationErrors :
                   DOMAIN PruneErrorObj(
                     payload.workflowParameters.validationErrors[i]) # {}}
           |-> PruneErrorObj(payload.workflowParameters.validationErrors[id])]]

setStateAfterUndoRedo(s, payload) == payload.workflowParameters

(* ------------------------------- inputs -------------------------------- *)

Names == {UNDEF, "foo", "Foo", "bar"}
Types == {ARRAY, INT}
Values == {UNDEF, "1"}

\* an edit changes the name (the other fields valid) or the other fields (the
\* name "foo")
NewDefinitions ==
  {nd \in [name : Names, type : Types, value : Values, defaultValue : Values] :
     \/ nd.name = "foo"
     \/ nd.type = INT /\ nd.value = "1" /\ nd.defaultValue = "1"}

\* edits that blank every field
BlankDefinitions == [name : {""}, type : Types, value : {""}, defaultValue : {""}]

\* useLegacy omitted or true, and the blank edits with the mode spelled out
UpdateEvents ==
  {[id |-> i, newDefinition |-> nd] : i \in Ids, nd \in NewDefinitions}
    \cup {[id |-> i, newDefinition |-> nd, useLegacy |-> TRUE] :
            i \in Ids, nd \in NewDefinitions}
    \cup {[id |-> i, newDefinition |-> nd, useLegacy |-> l] :
            i \in Ids, nd \in BlankDefinitions, l \in BOOLEAN}

\* definitions of a loaded workflow
LoadedDefinitions ==
  {EmptyObj,
   "A" :> [name |-> "foo", type |-> INT, value |-> "1", isEditable |-> FALSE],
   "A" :> [name |-> "Foo", type |-> ARRAY, isEditable |-> FALSE]
     @@ "B" :> [name |-> "bar", type |-> INT, value |-> "1", isEditable |-> FALSE]}

\* slice states captured earlier by undo/redo
Snapshots ==
  {initialState,
   addParameter(initialState, "A"),
   updateParameter(addParameter(initialState, "A"),
                   [id |-> "A",
                    newDefinition |-> [name |-> "foo", type |-> INT, value |-> "",
                                       defaultValue |-> ""],
                    useLegacy |-> TRUE])}

\* states of the payload's type that no reducer produces: an empty error set,
\* an empty message
MalformedSnapshots ==
  {[definitions |-> "A" :> [name |-> "foo", type |-> INT, value |-> "1"],
    validationErrors |-> "A" :> EmptyObj,
    isDirty |-> FALSE],
   [definitions |-> "A" :> [name |-> "", type |-> INT, value |-> "1"],
    validationErrors |-> "A" :> [name |-> "", value |-> UNDEF],
    isDirty |-> TRUE]}

\* guid(): an id that was never seen before
guid == CHOOSE i \in Ids \ used : TRUE

Seen(s) == DOMAIN s.definitions \cup DOMAIN s.validationErrors

(* ------------------------------- actions ------------------------------- *)

Init ==
  /\ state = initialState
  /\ used = {}
  /\ last = [type |-> "@@INIT"]
  /\ steps = 0

\* the store applies one dispatched action
Dispatch(action, s) ==
  /\ steps < MaxSteps
  /\ steps' = steps + 1
  /\ state' = s
  /\ used' = used \cup Seen(s)
  /\ last' = action

InitializeParameters ==
  \E payload \in LoadedDefinitions :
    /\ Dispatch([type |-> "initializeParameters", payload |-> payload],
             initializeParameters(state, payload))

AddParameter ==
  /\ Ids \ used # {}
  /\ Dispatch([type |-> "addParameter", guid |-> guid], addParameter(state, guid))

DeleteParameter ==
  \E id \in Ids :
    /\ Dispatch([type |-> "deleteParameter", payload |-> id], deleteParameter(state, id))

UpdateParameter ==
  \E payload \in UpdateEvents :
    /\ Dispatch([type |-> "updateParameter", payload |-> payload],
             updateParameter(state, payload))

SetIsWorkflowParametersDirty ==
  \E flag \in BOOLEAN :
    /\ Dispatch([type |-> "setIsWorkflowParametersDirty", payload |-> flag],
             setIsWorkflowParametersDirty(state, flag))

ResetWorkflowState ==
  /\ Dispatch([type |-> "resetWorkflowState"], resetWorkflowState(state))

SetStateAfterUndoRedo ==
  \E snapshot \in Snapshots :
    /\ Dispatch([type |-> "setStateAfterUndoRedo",
              payload |-> [workflowParameters |-> snapshot]],
             setStateAfterUndoRedo(state, [workflowParameters |-> snapshot]))

Next ==
  \/ InitializeParameters
  \/ AddParameter
  \/ DeleteParameter
  \/ UpdateParameter
  \/ SetIsWorkflowParametersDirty
  \/ ResetWorkflowState
  \/ SetStateAfterUndoRedo

Spec == Init /\ [][Next]_vars

\* editing only: add, update and delete from the empty state
NextEdit ==
  \/ AddParameter
  \/ DeleteParameter
  \/ UpdateParameter

SpecEdit == Init /\ [][NextEdit]_vars

\* a restore of any state of the payload's type
SetStateAfterUndoRedoAny ==
  \E snapshot \in Snapshots \cup MalformedSnapshots :
    /\ Dispatch([type |-> "setStateAfterUndoRedo",
              payload |-> [workflowParameters |-> snapshot]],
             setStateAfterUndoRedo(state, [workflowParameters |-> snapshot]))

NextAnySnapshot ==
  \/ InitializeParameters
  \/ AddParameter
  \/ DeleteParameter
  \/ UpdateParameter
  \/ SetIsWorkflowParametersDirty
  \/ ResetWorkflowState
  \/ SetStateAfterUndoRedoAny

SpecAnySnapshot == Init /\ [][NextAnySnapshot]_vars

\* the commands of one editing session: no load, no restore
NextSession ==
  \/ AddParameter
  \/ DeleteParameter
  \/ UpdateParameter
  \/ SetIsWorkflowParametersDirty
  \/ ResetWorkflowState

SpecSession == Init /\ [][NextSession]_vars

(* ------------------------- reading the state --------------------------- *)

Fields == {"name", "value", "defaultValue"}

\* the error set recorded for id, empty when there is none
ErrorsOf(s, id) == getRecordEntry(s.validationErrors, id, EmptyObj)

\* the definition stored for id, empty when there is none
DefinitionOf(s, id) == getRecordEntry(s.definitions, id, EmptyObj)

\* an own key and its value, for comparing two objects at one key
Entry(obj, k) == <<k \in DOMAIN obj, Get(obj, k)>>

IsUpdate(a) == a.type = "updateParameter"

\* two objects agree at key k: both lack it, or both have it with one value
SameAt(a, b, k) ==
  /\ (k \in DOMAIN a) = (k \in DOMAIN b)
  /\ k \in DOMAIN a => a[k] = b[k]

\* the rule of field F as updateParameter calls it (lines 113-117)
RuleOf(F, s, payload) ==
  validateParameter(payload.id,
                    IF F = "name" THEN [name |-> data(payload).name] ELSE data(payload),
                    F, s.definitions,
                    IF F = "value" THEN ~useLegacy(payload) ELSE TRUE)

\* the fields whose rule a call evaluates (lines 113-119)
Evaluated(F, payload) == F # "defaultValue" \/ useLegacy(payload)

\* some definition other than id has the name n, ignoring case
NameTakenByOther(s, id, n) ==
  \E other \in DOMAIN s.definitions \ {id} :
    /\ Get(s.definitions[other], "name") # UNDEF
    /\ toLowerCase(s.definitions[other].name) = toLowerCase(n)

(* ------------------------------- claims -------------------------------- *)

\* C1: validationErrors never maps an id to an empty error set, and no error
\* set has a name / value / defaultValue key whose message is empty or absent.
C1_PruningInvariant ==
  \A id \in DOMAIN state.validationErrors :
    /\ DOMAIN state.validationErrors[id] # {}
    /\ \A k \in Fields \cap DOMAIN state.validationErrors[id] :
         ~Falsy(state.validationErrors[id][k])

\* an update cleared every error of its id while the other id keeps a partial set
C1_Witness ==
  /\ IsUpdate(last)
  /\ last.payload.id \in DOMAIN state.definitions
  /\ last.payload.id \notin DOMAIN state.validationErrors
  /\ \E other \in DOMAIN state.validationErrors :
       DOMAIN state.validationErrors[other] = {"name"}


\* C2 (as stated): after updateParameter the error set of id has the key F
\* exactly when the rule of F was evaluated by this call and returned a
\* message, and no key has an empty value.
C2_Original ==
  [][IsUpdate(last') =>
       /\ \A F \in Fields :
            F \in DOMAIN ErrorsOf(state', last'.payload.id)
              <=> /\ Evaluated(F, last'.payload)
                  /\ ~Falsy(RuleOf(F, state, last'.payload))
       /\ \A k \in DOMAIN ErrorsOf(state', last'.payload.id) :
            ~Falsy(ErrorsOf(state', last'.payload.id)[k])]_vars

\* C2 (amended): ... or F is defaultValue, the call is not in legacy mode and a
\* defaultValue message was recorded for id before the call; a key that is
\* present holds the message of this call's rule, or the one recorded before.
C2_ErrorKeys ==
  [][IsUpdate(last') =>
       /\ \A F \in Fields :
            /\ F \in DOMAIN ErrorsOf(state', last'.payload.id)
                 <=> \/ /\ Evaluated(F, last'.payload)
                        /\ ~Falsy(RuleOf(F, state, last'.payload))
                     \/ /\ ~Evaluated(F, last'.payload)
                        /\ ~Falsy(Get(ErrorsOf(state, last'.payload.id), F))
            /\ F \in DOMAIN ErrorsOf(state', last'.payload.id)
                 => ErrorsOf(state', last'.payload.id)[F] =
                      IF Evaluated(F, last'.payload)
                      THEN RuleOf(F, state, last'.payload)
                      ELSE ErrorsOf(state, last'.payload.id)[F]
       /\ \A k \in DOMAIN ErrorsOf(state', last'.payload.id) :
            ~Falsy(ErrorsOf(state', last'.payload.id)[k])]_vars

\* a non-legacy update whose id keeps a defaultValue error and nothing else
C2_Witness ==
  /\ IsUpdate(last)
  /\ ~useLegacy(last.payload)
  /\ DOMAIN ErrorsOf(state, last.payload.id) = {"defaultValue"}

\* C3 (as stated): a recorded name error means the name rule fails now: the
\* stored name is empty or another definition has the same name ignoring case.
C3_NoStaleNameError ==
  \A id \in DOMAIN state.validationErrors :
    "name" \in DOMAIN state.validationErrors[id]
      => /\ id \in DOMAIN state.definitions
         /\ \/ Falsy(Get(state.definitions[id], "name"))
            \/ NameTakenByOther(state, id, state.definitions[id].name)

\* C4: an update of id with a non-empty name n records the duplicate-name
\* error exactly when a definition other than id has the name n ignoring
\* case, and no name error otherwise; the name stored for id never counts.
C4_NameUniqueness ==
  [][IsUpdate(last') /\ ~Falsy(data(last'.payload).name) =>
       IF NameTakenByOther(state, last'.payload.id, data(last'.payload).name)
       THEN Get(ErrorsOf(state', last'.payload.id), "name") = DuplicateName
       ELSE "name" \notin DOMAIN ErrorsOf(state', last'.payload.id)]_vars

\* an update is flagged as a duplicate of a name that differs in case only
C4_Witness ==
  /\ IsUpdate(last)
  /\ Get(ErrorsOf(state, last.payload.id), "name") = DuplicateName
  /\ \E other \in DOMAIN state.definitions \ {last.payload.id} :
       /\ Get(state.definitions[other], "name") # UNDEF
       /\ state.definitions[other].name # state.definitions[last.payload.id].name
       /\ toLowerCase(state.definitions[other].name)
            = toLowerCase(state.definitions[last.payload.id].name)

\* C5: an update with an empty or absent value records the missing-value
\* error under value when useLegacy is false or omitted, and leaves no value
\* error for the id when useLegacy is true.
C5_RequiredValueAsymmetry ==
  [][IsUpdate(last') /\ Falsy(data(last'.payload).value) =>
       IF useLegacy(last'.payload)
       THEN "value" \notin DOMAIN ErrorsOf(state', last'.payload.id)
       ELSE Get(ErrorsOf(state', last'.payload.id), "value") = MissingValue]_vars

\* a legacy update without a value: the id has errors, none under value
C5_Witness ==
  /\ IsUpdate(last)
  /\ useLegacy(last.payload)
  /\ Falsy(data(last.payload).value)
  /\ last.payload.id \in DOMAIN state.validationErrors
  /\ "value" \notin DOMAIN state.validationErrors[last.payload.id]

\* C6: an update with useLegacy false leaves the stored defaultValue of its id
\* and the defaultValue error of its id as they were; the defaultValue error of
\* an id changes only in a legacy update of that id, in its deletion, in a
\* reset or in a restore.
C6_DefaultValuePersistence ==
  [][/\ IsUpdate(last') /\ ~useLegacy(last'.payload) =>
          /\ Entry(DefinitionOf(state', last'.payload.id), "defaultValue")
               = Entry(DefinitionOf(state, last'.payload.id), "defaultValue")
          /\ Entry(ErrorsOf(state', last'.payload.id), "defaultValue")
               = Entry(ErrorsOf(state, last'.payload.id), "defaultValue")
     /\ \A id \in Ids :
          Entry(ErrorsOf(state', id), "defaultValue")
              # Entry(ErrorsOf(state, id), "defaultValue")
            => \/ /\ IsUpdate(last')
                  /\ useLegacy(last'.payload)
                  /\ last'.payload.id = id
               \/ /\ last'.type = "deleteParameter"
                  /\ last'.payload = id
               \/ last'.type \in {"resetWorkflowState", "setStateAfterUndoRedo"}]_vars

\* a non-legacy update carrying another defaultValue than the stored one, on an
\* id that has a defaultValue error
C6_Witness ==
  /\ IsUpdate(last)
  /\ ~useLegacy(last.payload)
  /\ "defaultValue" \in DOMAIN ErrorsOf(state, last.payload.id)
  /\ "defaultValue" \in DOMAIN DefinitionOf(state, last.payload.id)
  /\ DefinitionOf(state, last.payload.id).defaultValue
       # data(last.payload).defaultValue

\* what deleteParameter(id) does to the id and to every other id
DeleteEffect(id) ==
  /\ id \notin DOMAIN state'.definitions
  /\ id \notin DOMAIN state'.validationErrors
  /\ state'.isDirty = TRUE
  /\ DOMAIN state'.definitions = DOMAIN state.definitions \ {id}
  /\ DOMAIN state'.validationErrors = DOMAIN state.validationErrors \ {id}
  /\ \A other \in DOMAIN state'.definitions :
       state'.definitions[other] = state.definitions[other]
  /\ \A other \in DOMAIN state'.validationErrors :
       state'.validationErrors[other] = state.validationErrors[other]

\* C7 (as stated): deleteParameter(id) leaves id absent from both maps, sets
\* isDirty and keeps every other entry; when id is not in definitions, both
\* maps are unchanged.
C7_Original ==
  [][last'.type = "deleteParameter" =>
       /\ DeleteEffect(last'.payload)
       /\ last'.payload \notin DOMAIN state.definitions
            => /\ state'.definitions = state.definitions
               /\ state'.validationErrors = state.validationErrors]_vars

\* C7 (amended): ... when id is in neither map, both maps are unchanged.
C7_Delete ==
  [][last'.type = "deleteParameter" =>
       /\ DeleteEffect(last'.payload)
       /\ last'.payload \notin DOMAIN state.definitions
            => state'.definitions = state.definitions
       /\ last'.payload \notin DOMAIN state.validationErrors
            => state'.validationErrors = state.validationErrors]_vars

\* a parameter with errors was deleted next to another one with errors
C7_Witness ==
  /\ last.type = "deleteParameter"
  /\ last.payload \in used
  /\ last.payload \notin Seen(state)
  /\ \E other \in DOMAIN state.definitions : other \in DOMAIN state.validationErrors

\* C8: addParameter inserts one definition under an id that was in neither
\* map, with an empty name, isEditable true, the array type and no value or
\* defaultValue; it leaves every other definition and validationErrors as they
\* were and sets isDirty; two adds in a row give two ids, both unnamed and
\* without an error entry.
C8_Add ==
  [][last'.type = "addParameter" =>
       /\ last'.guid \notin DOMAIN state.definitions
       /\ DOMAIN state'.definitions = DOMAIN state.definitions \cup {last'.guid}
       /\ state'.definitions[last'.guid]
            = [isEditable |-> TRUE, type |-> "Array", name |-> ""]
       /\ \A other \in DOMAIN state.definitions :
            state'.definitions[other] = state.definitions[other]
       /\ state'.validationErrors = state.validationErrors
       /\ last'.guid \notin DOMAIN state'.validationErrors
       /\ state'.isDirty = TRUE
       /\ last.type = "addParameter" =>
            /\ last.guid # last'.guid
            /\ state'.definitions[last.guid].name = ""
            /\ last.guid \notin DOMAIN state'.validationErrors]_vars

\* two adds: two unnamed, editable parameters and no error entry
C8_Witness ==
  /\ last.type = "addParameter"
  /\ state.validationErrors = EmptyObj
  /\ \E a, b \in DOMAIN state.definitions :
       /\ a # b
       /\ state.definitions[a] = [isEditable |-> TRUE, type |-> "Array", name |-> ""]
       /\ state.definitions[b] = [isEditable |-> TRUE, type |-> "Array", name |-> ""]

\* C9: the reset trigger yields the empty initial state, whatever was
\* dispatched before.
C9_Reset ==
  [][last'.type = "resetWorkflowState" =>
       /\ DOMAIN state'.definitions = {}
       /\ DOMAIN state'.validationErrors = {}
       /\ state'.isDirty = FALSE
       /\ DOMAIN state' = {"definitions", "validationErrors", "isDirty"}]_vars

\* a reset after parameters existed
C9_Witness ==
  /\ last.type = "resetWorkflowState"
  /\ used # {}
  /\ DOMAIN state.definitions = {}
  /\ state.isDirty = FALSE

\* C10: updateParameter applied again with the same input changes nothing.
C10_Idempotence ==
  [][IsUpdate(last') => updateParameter(state', last'.payload) = state']_vars

\* an update that left a name and a value error next to another definition
C10_Witness ==
  /\ IsUpdate(last)
  /\ {"name", "value"} \subseteq DOMAIN ErrorsOf(state, last.payload.id)
  /\ DOMAIN state.definitions # {last.payload.id}

\* what setIsWorkflowParametersDirty(flag) does, and the commands that may
\* take isDirty from true to false
DirtyFrame ==
  /\ last'.type = "setIsWorkflowParametersDirty"
       => state' = [state EXCEPT !.isDirty = last'.payload]
  /\ state.isDirty /\ ~state'.isDirty
       => \/ last'.type = "setIsWorkflowParametersDirty" /\ last'.payload = FALSE
          \/ last'.type = "resetWorkflowState"

\* C11 (as stated): initializeParameters, addParameter, deleteParameter and
\* updateParameter each leave isDirty true, and isDirty stays true until a
\* setIsWorkflowParametersDirty(false) or a reset; setIsWorkflowParametersDirty
\* sets isDirty to its flag and changes nothing else.
C11_Original ==
  [][/\ last'.type \in {"initializeParameters", "addParameter",
                        "deleteParameter", "updateParameter"}
          => state'.isDirty = TRUE
     /\ DirtyFrame]_vars

\* C11 (amended): addParameter, deleteParameter and updateParameter each leave
\* isDirty true; initializeParameters leaves isDirty as it was; isDirty goes
\* from true to false only in setIsWorkflowParametersDirty(false), in a reset
\* or in a restore of a snapshot that is not dirty; setIsWorkflowParametersDirty
\* sets isDirty to its flag and changes nothing else.
C11_DirtyFlag ==
  [][/\ last'.type \in {"addParameter", "deleteParameter", "updateParameter"}
          => state'.isDirty = TRUE
     /\ last'.type = "initializeParameters" => state'.isDirty = state.isDirty
     /\ last'.type = "setIsWorkflowParametersDirty"
          => state' = [state EXCEPT !.isDirty = last'.payload]
     /\ state.isDirty /\ ~state'.isDirty
          => \/ last'.type = "setIsWorkflowParametersDirty" /\ last'.payload = FALSE
             \/ last'.type = "resetWorkflowState"
             \/ /\ last'.type = "setStateAfterUndoRedo"
                /\ ~last'.payload.workflowParameters.isDirty]_vars

\* the delete of an id that never existed has marked a clean store dirty
C11_Witness ==
  /\ last.type = "deleteParameter"
  /\ last.payload \notin used
  /\ state.definitions # EmptyObj
  /\ state.isDirty = TRUE

\* C12: initializeParameters(defs) sets definitions to defs and leaves
\* validationErrors and isDirty as they were, so the errors recorded for the
\* ids of the replaced definitions stay.
C12_Initialize ==
  [][last'.type = "initializeParameters" =>
       /\ state'.definitions = last'.payload
       /\ state'.validationErrors = state.validationErrors
       /\ state'.isDirty = state.isDirty]_vars

\* definitions were replaced and the error entry of a replaced id is still there
C12_Witness ==
  /\ last.type = "initializeParameters"
  /\ state.definitions = last.payload
  /\ \E id \in DOMAIN state.validationErrors : id \notin DOMAIN state.definitions

\* C13: whatever is invalid, updateParameter stores the edit: afterwards
\* definitions[id] exists with the given name (the empty string when the name
\* is absent), the given type and the given value; when id was not in
\* definitions the stored record has no other key, except defaultValue in
\* legacy mode.
C13_UpdateStores ==
  [][IsUpdate(last') =>
       /\ last'.payload.id \in DOMAIN state'.definitions
       /\ {"name", "type", "value"}
            \subseteq DOMAIN state'.definitions[last'.payload.id]
       /\ state'.definitions[last'.payload.id].name
            = (IF data(last'.payload).name = UNDEF
               THEN "" ELSE data(last'.payload).name)
       /\ state'.definitions[last'.payload.id].type = data(last'.payload).type
       /\ state'.definitions[last'.payload.id].value = data(last'.payload).value
       /\ last'.payload.id \notin DOMAIN state.definitions
            => DOMAIN state'.definitions[last'.payload.id]
                 = {"name", "type", "value"}
                     \cup (IF useLegacy(last'.payload)
                           THEN {"defaultValue"} ELSE {})]_vars

\* an update without a name created its id although the name is invalid
C13_Witness ==
  /\ IsUpdate(last)
  /\ data(last.payload).name = UNDEF
  /\ DOMAIN DefinitionOf(state, last.payload.id) = {"name", "type", "value"}
  /\ state.definitions[last.payload.id].name = ""
  /\ DOMAIN ErrorsOf(state, last.payload.id) = {"name"}

\* C14: a restore makes the state the supplied snapshot, whatever the state
\* was and whatever the snapshot is; no rule is run and nothing is pruned.
C14_Restore ==
  [][last'.type = "setStateAfterUndoRedo" =>
       /\ state'.definitions = last'.payload.workflowParameters.definitions
       /\ state'.validationErrors
            = last'.payload.workflowParameters.validationErrors
       /\ state'.isDirty = last'.payload.workflowParameters.isDirty
       /\ DOMAIN state' = {"definitions", "validationErrors", "isDirty"}]_vars

\* a snapshot with an empty error set or an empty message was restored over a
\* state that had another parameter
C14_Witness ==
  /\ last.type = "setStateAfterUndoRedo"
  /\ \E id \in DOMAIN state.validationErrors :
       \/ DOMAIN state.validationErrors[id] = {}
       \/ \E k \in DOMAIN state.validationErrors[id] :
            Falsy(state.validationErrors[id][k])
  /\ used # Seen(state)

\* C15: a legacy update with an empty or absent defaultValue records the
\* missing-value error under defaultValue, whatever the value is; with a
\* non-empty defaultValue the defaultValue error is the message of the external
\* validator for (type, defaultValue, required), and absent when it has none.
C15_LegacyDefaultRequired ==
  [][IsUpdate(last') /\ useLegacy(last'.payload) =>
       IF data(last'.payload).defaultValue \in {"", UNDEF}
       THEN Get(ErrorsOf(state', last'.payload.id), "defaultValue") = MissingValue
       ELSE Get(ErrorsOf(state', last'.payload.id), "defaultValue")
              = validateParameterValueWithSwaggerType(
                  data(last'.payload).type, data(last'.payload).defaultValue, TRUE)]_vars

\* a legacy update with a valid value and no defaultValue: the only error of
\* the id is the missing defaultValue
C15_Witness ==
  /\ IsUpdate(last)
  /\ useLegacy(last.payload)
  /\ data(last.payload).value = "1"
  /\ data(last.payload).type = INT
  /\ Falsy(data(last.payload).defaultValue)
  /\ ErrorsOf(state, last.payload.id) = [defaultValue |-> MissingValue]

\* C16: an update with an empty or absent name records the missing-name
\* error, never the duplicate-name error, also when other definitions have an
\* empty name.
C16_MissingNameFirst ==
  [][IsUpdate(last') /\ Falsy(data(last'.payload).name) =>
       Get(ErrorsOf(state', last'.payload.id), "name") = MissingName]_vars

\* an update with an empty name next to a definition whose name is empty
C16_Witness ==
  /\ IsUpdate(last)
  /\ data(last.payload).name = ""
  /\ Get(ErrorsOf(state, last.payload.id), "name") = MissingName
  /\ \E other \in DOMAIN state.definitions \ {last.payload.id} :
       Get(state.definitions[other], "name") = ""

\* C17: of two definitions whose names are not empty and equal ignoring
\* case, at least one has a name error.
C17_DuplicatesFlagged ==
  \A a, b \in DOMAIN state.definitions :
    /\ a # b
    /\ ~Falsy(Get(state.definitions[a], "name"))
    /\ ~Falsy(Get(state.definitions[b], "name"))
    /\ toLowerCase(state.definitions[a].name) = toLowerCase(state.definitions[b].name)
    => \/ "name" \in DOMAIN ErrorsOf(state, a)
       \/ "name" \in DOMAIN ErrorsOf(state, b)

\* two names that differ in case only, flagged on one side only
C17_Witness ==
  \E a, b \in DOMAIN state.definitions :
    /\ a # b
    /\ ~Falsy(Get(state.definitions[a], "name"))
    /\ ~Falsy(Get(state.definitions[b], "name"))
    /\ state.definitions[a].name # state.definitions[b].name
    /\ toLowerCase(state.definitions[a].name) = toLowerCase(state.definitions[b].name)
    /\ "name" \notin DOMAIN ErrorsOf(state, a)
    /\ Get(ErrorsOf(state, b), "name") = DuplicateName

\* C18: every id that has an error set has a definition.
C18_ErrorsHaveDefinitions ==
  DOMAIN state.validationErrors \subseteq DOMAIN state.definitions

\* a parameter with errors was deleted, the other one keeps its errors
C18_Witness ==
  /\ last.type = "deleteParameter"
  /\ last.payload \in used
  /\ DOMAIN state.validationErrors # {}
  /\ DOMAIN state.validationErrors = DOMAIN state.definitions

\* C19: updateParameter(id, ...) leaves the definition and the error set of
\* every other id as they were, and in the definition of id it leaves
\* isEditable, and defaultValue outside legacy mode, as they were.
C19_UpdateFrame ==
  [][IsUpdate(last') =>
       /\ \A other \in Ids \ {last'.payload.id} :
            /\ SameAt(state'.definitions, state.definitions, other)
            /\ SameAt(state'.validationErrors, state.validationErrors, other)
       /\ SameAt(DefinitionOf(state', last'.payload.id),
                 DefinitionOf(state, last'.payload.id), "isEditable")
       /\ ~useLegacy(last'.payload)
            => SameAt(DefinitionOf(state', last'.payload.id),
                      DefinitionOf(state, last'.payload.id), "defaultValue")]_vars

\* an added parameter was renamed to the name of the other one: it is still
\* editable, and the other one has no name error
C19_Witness ==
  /\ IsUpdate(last)
  /\ "isEditable" \in DOMAIN DefinitionOf(state, last.payload.id)
  /\ Get(ErrorsOf(state, last.payload.id), "name") = DuplicateName
  /\ \E other \in DOMAIN state.definitions \ {last.payload.id} :
       /\ state.definitions[other].name = state.definitions[last.payload.id].name
       /\ other \notin DOMAIN state.validationErrors

====
